---- MODULE Spec2Model ----
(***************************************************************************)
(* Dashboard metric queries of packages/shared/src/server/repositories/    *)
(* dashboards.ts: each metric compiles the caller's FilterState, composes  *)
(* one parameterised SQL text, hands it to the store client and reshapes   *)
(* the rows.                                                               *)
(*                                                                         *)
(* A JavaScript string is a sequence of text fragments, so that "" is <<>> *)
(* and concatenation is \o.  A fragment records the SQL words, the pieces  *)
(* interpolated into them and the {name: Type} placeholders it holds.      *)
(* A JavaScript object is a function from keys to values.                  *)
(***************************************************************************)
EXTENDS Integers, Sequences, FiniteSets, TLC

(***************************************************************************)
(* The names FilterList.apply may give its placeholders: any names that    *)
(* do not collide within one list.                                         *)
(***************************************************************************)
ParamNames == {"dateTimeFilter1", "dateTimeFilter2", "projectId"}

VARIABLES pc, metric, projectIdArg, groupBy, chFilter, query, params,
          storeCalls, rows, outcome, traces

vars == <<pc, metric, projectIdArg, groupBy, chFilter, query, params,
          storeCalls, rows, outcome, traces>>

(***************************************************************************)
(* Bounds of the model.                                                    *)
(***************************************************************************)
MaxFilters == 2
MaxRows == 2
MaxTraces == 2
MaxTime == 17

(***************************************************************************)
(* Values.                                                                 *)
(***************************************************************************)
Str(s) == [t |-> "string", s |-> s]
DateOf(ms) == [t |-> "date", ms |-> ms]
TextNum(n) == [t |-> "text", n |-> n]
Num(n) == [t |-> "number", n |-> n]
TextTime(ms) == [t |-> "text", ms |-> ms]

EmptyObject == <<>>
Spread(first, second) == second @@ first
Keys(object) == DOMAIN object

Fragment(sql, args, ph) == [sql |-> sql, args |-> args, ph |-> ph]
Text(sql) == <<Fragment(sql, <<>>, {})>>
Returned(text) == [defined |-> TRUE, text |-> text]
ReturnedUndefined == [defined |-> FALSE, text |-> <<>>]
InterpolateEmptyForUndefined(value) == value.text
Interpolate(value) == IF value.defined THEN value.text ELSE Text("undefined")

RECURSIVE Placeholders(_)
Placeholders(text) ==
    IF text = <<>> THEN {} ELSE Head(text).ph \cup Placeholders(Tail(text))

Number(value) == Num(value.n)
NewDate(value) == DateOf(value.ms)
convertDateToClickhouseDateTime(date) == [t |-> "clickhouseDateTime", ms |-> date.ms]

(***************************************************************************)
(* The inputs of a call.                                                   *)
(***************************************************************************)
ProjectIds == {"proj1", "proj2"}
DateTrunc == {"year", "month", "week", "day", "hour", "minute"}
Granularities == DateTrunc \cup {"second"}

dashboardColumnDefinitions ==
    [Timestamp |-> [clickhouseTableName |-> "traces", clickhouseSelect |-> "timestamp"],
     ScoreTimestamp |-> [clickhouseTableName |-> "scores", clickhouseSelect |-> "timestamp"],
     StartTime |-> [clickhouseTableName |-> "observations", clickhouseSelect |-> "start_time"]]

SupportedOperators == {">=", ">", "<"}

FilterConditions ==
    {c \in [column : {"Timestamp", "ScoreTimestamp", "StartTime"},
            operator : SupportedOperators, value : {1, 2}] :
        c.operator = ">=" \/ c.value = 1}
    \cup {[column |-> "Unknown", operator |-> ">=", value |-> 1],
          [column |-> "Timestamp", operator |-> "contains", value |-> 1]}

FilterStates == UNION {[1..n -> FilterConditions] : n \in 0..MaxFilters}

ParamNamings(n) ==
    {names \in [1..n -> ParamNames] :
        \A i, j \in 1..n : names[i] = names[j] => i = j}

(***************************************************************************)
(* The filter compiler: createFilterFromFilterState, FilterList.find and   *)
(* FilterList.apply.                                                       *)
(***************************************************************************)
FilterError(filter) ==
    IF \E i \in 1..Len(filter) : filter[i].column \notin DOMAIN dashboardColumnDefinitions
    THEN "UnknownField"
    ELSE IF \E i \in 1..Len(filter) : filter[i].operator \notin SupportedOperators
    THEN "UnsupportedOperator"
    ELSE "none"

createFilterFromFilterState(filter) ==
    [i \in 1..Len(filter) |->
        [clickhouseTable |-> dashboardColumnDefinitions[filter[i].column].clickhouseTableName,
         field |-> dashboardColumnDefinitions[filter[i].column].clickhouseSelect,
         operator |-> filter[i].operator,
         value |-> DateOf(filter[i].value),
         varName |-> "unset"]]

FilterList(filters, names) ==
    [i \in 1..Len(filters) |-> [filters[i] EXCEPT !.varName = names[i]]]

Matching(list, tests) == {i \in 1..Len(list) : tests[i]}

Find(list, tests) ==
    IF Matching(list, tests) # {}
    THEN list[CHOOSE i \in Matching(list, tests) : \A j \in Matching(list, tests) : i <= j]
    ELSE [defined |-> FALSE]

Found(filter) == "field" \in DOMAIN filter

ApplyQuery(list) ==
    IF Len(list) = 0 THEN Text("1=1")
    ELSE [i \in 1..Len(list) |->
            Fragment(list[i].operator,
                     <<list[i].clickhouseTable, list[i].field>>,
                     {list[i].varName})]

ApplyParams(list) ==
    [k \in {list[i].varName : i \in 1..Len(list)} |->
        convertDateToClickhouseDateTime(
            list[CHOOSE i \in 1..Len(list) : list[i].varName = k].value)]

Apply(list) == [query |-> ApplyQuery(list), params |-> ApplyParams(list)]

(***************************************************************************)
(* Time bucketing.                                                         *)
(***************************************************************************)
orderByTimeSeriesHourStepForDay(dateTrunc, col) ==
    CASE dateTrunc = "year" ->
            Returned(<<Fragment("ORDER BY ASC WITH FILL STEP", <<col, "toIntervalYear(1)">>, {})>>)
      [] dateTrunc = "month" ->
            Returned(<<Fragment("ORDER BY ASC WITH FILL STEP", <<col, "toIntervalMonth(1)">>, {})>>)
      [] dateTrunc = "week" ->
            Returned(<<Fragment("ORDER BY ASC WITH FILL STEP", <<col, "toIntervalWeek(1)">>, {})>>)
      [] dateTrunc = "day" ->
            Returned(<<Fragment("ORDER BY ASC WITH FILL STEP", <<col, "toIntervalHour(1)">>, {})>>)
      [] dateTrunc = "hour" ->
            Returned(<<Fragment("ORDER BY ASC WITH FILL STEP", <<col, "toIntervalHour(1)">>, {})>>)
      [] dateTrunc = "minute" ->
            Returned(<<Fragment("ORDER BY ASC WITH FILL STEP", <<col, "toIntervalMinute(1)">>, {})>>)
      [] OTHER -> ReturnedUndefined

orderByTimeSeries(dateTrunc, col) ==
    CASE dateTrunc = "year" ->
            Returned(<<Fragment("ORDER BY ASC WITH FILL STEP", <<col, "toIntervalYear(1)">>, {})>>)
      [] dateTrunc = "month" ->
            Returned(<<Fragment("ORDER BY ASC WITH FILL STEP", <<col, "toIntervalMonth(1)">>, {})>>)
      [] dateTrunc = "week" ->
            Returned(<<Fragment("ORDER BY ASC WITH FILL STEP", <<col, "toIntervalWeek(1)">>, {})>>)
      [] dateTrunc = "day" ->
            Returned(<<Fragment("ORDER BY ASC WITH FILL STEP", <<col, "toIntervalDay(1)">>, {})>>)
      [] dateTrunc = "hour" ->
            Returned(<<Fragment("ORDER BY ASC WITH FILL STEP", <<col, "toIntervalHour(1)">>, {})>>)
      [] dateTrunc = "minute" ->
            Returned(<<Fragment("ORDER BY ASC WITH FILL STEP", <<col, "toIntervalMinute(1)">>, {})>>)
      [] OTHER -> ReturnedUndefined

selectTimeseriesColumn(dateTrunc, col, as) ==
    CASE dateTrunc = "year" -> Returned(<<Fragment("toStartOfYear", <<col, as>>, {})>>)
      [] dateTrunc = "month" -> Returned(<<Fragment("toStartOfMonth", <<col, as>>, {})>>)
      [] dateTrunc = "week" -> Returned(<<Fragment("toStartOfWeek", <<col, as>>, {})>>)
      [] dateTrunc = "day" -> Returned(<<Fragment("toStartOfDay", <<col, as>>, {})>>)
      [] dateTrunc = "hour" -> Returned(<<Fragment("toStartOfHour", <<col, as>>, {})>>)
      [] dateTrunc = "minute" -> Returned(<<Fragment("toStartOfMinute", <<col, as>>, {})>>)
      [] OTHER -> ReturnedUndefined

(***************************************************************************)
(* The metric templates: the query text and the params of each metric.     *)
(***************************************************************************)
IsObservationFilter(f) == f.clickhouseTable = "observations"

IsTraceFilter(f) == f.clickhouseTable = "traces"

HasTraceFilter(list) == Find(list, [i \in 1..Len(list) |-> IsTraceFilter(list[i])])

IsTimestampLowerBound(f) ==
    f.field = "timestamp" /\ (f.operator = ">=" \/ f.operator = ">")

IsStartTimeLowerBound(f) ==
    /\ f.clickhouseTable = "observations"
    /\ f.field = "start_time"
    /\ (f.operator = ">=" \/ f.operator = ">")

ProjectPredicate == <<Fragment("WHERE project_id =", <<>>, {"projectId"})>>
ScoreProjectPredicate == <<Fragment("WHERE s.project_id =", <<>>, {"projectId"})>>
And == Text("AND")
LeftJoinTraces ==
    Text("LEFT JOIN traces t ON o.trace_id = t.id AND o.project_id = t.project_id")
JoinTraces ==
    Text("JOIN traces t ON o.trace_id = t.id AND o.project_id = t.project_id")
JoinTracesFinal ==
    Text("JOIN traces t FINAL ON t.id = s.trace_id AND t.project_id = s.project_id")
TracesTimestampWidening ==
    <<Fragment("AND t.timestamp >= - INTERVAL 1 HOUR", <<>>, {"tracesTimestamp"})>>
TractTimestampWidening ==
    <<Fragment("AND t.timestamp >= - INTERVAL 1 HOUR", <<>>, {"tractTimestamp"})>>

getTotalTracesQuery(list) ==
    Text("SELECT count(id) as count")
    \o Text("FROM traces t FINAL")
    \o ProjectPredicate
    \o And \o Apply(list).query

getTotalTracesParams(project, list) ==
    Spread(("projectId" :> Str(project)), Apply(list).params)

getObservationsCostGroupedByNameQuery(list) ==
    LET appliedFilter == Apply(list)
        hasTraceFilter == HasTraceFilter(list)
    IN  Text("SELECT provided_model_name as name, sumMap(cost_details)['total'] as sum_cost_details, sumMap(usage_details)['total'] as sum_usage_details")
        \o Text("FROM observations o FINAL")
        \o (IF Found(hasTraceFilter) THEN LeftJoinTraces ELSE <<>>)
        \o ProjectPredicate
        \o And \o appliedFilter.query
        \o Text("GROUP BY provided_model_name")
        \o Text("ORDER BY sumMap(cost_details)['total'] DESC")

getObservationsCostGroupedByNameParams(project, list) ==
    Spread(("projectId" :> Str(project)), Apply(list).params)

getScoreAggregateQuery(list) ==
    LET timeFilter == Find(list, [i \in 1..Len(list) |-> IsTimestampLowerBound(list[i])])
        chFilterApplied == Apply(list)
        hasTraceFilter == HasTraceFilter(list)
    IN  Text("SELECT s.name, count(*) as count, avg(s.value) as avg_value, s.source, s.data_type")
        \o Text("FROM scores s FINAL")
        \o (IF Found(hasTraceFilter) THEN JoinTracesFinal ELSE <<>>)
        \o ScoreProjectPredicate
        \o And \o chFilterApplied.query
        \o (IF Found(timeFilter) /\ Found(hasTraceFilter)
            THEN TracesTimestampWidening ELSE <<>>)
        \o Text("GROUP BY s.name, s.source, s.data_type")
        \o Text("ORDER BY count(*) DESC")

getScoreAggregateParams(project, list) ==
    LET timeFilter == Find(list, [i \in 1..Len(list) |-> IsTimestampLowerBound(list[i])])
        chFilterApplied == Apply(list)
    IN  Spread(Spread(("projectId" :> Str(project)), chFilterApplied.params),
               IF Found(timeFilter)
               THEN ("tracesTimestamp" :> convertDateToClickhouseDateTime(timeFilter.value))
               ELSE EmptyObject)

groupTracesByTimeQuery(list, dateTrunc) ==
    Text("SELECT")
    \o Interpolate(selectTimeseriesColumn(dateTrunc, "timestamp", "timestamp"))
    \o Text(", count(*) as count")
    \o Text("FROM traces t FINAL")
    \o ProjectPredicate
    \o And \o Apply(list).query
    \o Text("GROUP BY timestamp")
    \o Interpolate(orderByTimeSeries(dateTrunc, "timestamp"))

groupTracesByTimeParams(project, list) ==
    Spread(("projectId" :> Str(project)), Apply(list).params)

getObservationUsageByTimeQuery(list, dateTrunc) ==
    LET appliedFilter == Apply(list)
    IN  Text("SELECT")
        \o Interpolate(selectTimeseriesColumn(dateTrunc, "start_time", "start_time"))
        \o Text(", sumMap(usage_details)['total'] as sum_usage_details, sumMap(cost_details)['total'] as sum_cost_details, provided_model_name")
        \o Text("FROM observations o FINAL")
        \o (IF Found(HasTraceFilter(list)) THEN LeftJoinTraces ELSE <<>>)
        \o ProjectPredicate
        \o And \o appliedFilter.query
        \o Text("GROUP BY start_time, provided_model_name")
        \o Interpolate(orderByTimeSeries(dateTrunc, "start_time"))

getObservationUsageByTimeParams(project, list) ==
    Spread(("projectId" :> Str(project)), Apply(list).params)

getDistinctModelsQuery(list) ==
    LET appliedFilter == Apply(list)
    IN  Text("SELECT distinct(provided_model_name) as model")
        \o Text("FROM observations o FINAL")
        \o (IF Found(HasTraceFilter(list)) THEN LeftJoinTraces ELSE <<>>)
        \o ProjectPredicate
        \o And \o appliedFilter.query

getDistinctModelsParams(project, list) ==
    Spread(("projectId" :> Str(project)), Apply(list).params)

getModelUsageByUserQuery(list) ==
    LET appliedFilter == Apply(list)
        timeFilter == Find(list, [i \in 1..Len(list) |-> IsStartTimeLowerBound(list[i])])
    IN  Text("SELECT sumMap(usage_details)['total'] as sum_usage_details, sumMap(cost_details)['total'] as sum_cost_details, user_id")
        \o Text("FROM observations o FINAL")
        \o JoinTraces
        \o ProjectPredicate
        \o Text("AND t.user_id IS NOT NULL")
        \o And \o appliedFilter.query
        \o (IF Found(timeFilter) THEN TractTimestampWidening ELSE <<>>)
        \o Text("GROUP BY user_id")

getModelUsageByUserParams(project, list) ==
    LET appliedFilter == Apply(list)
        timeFilter == Find(list, [i \in 1..Len(list) |-> IsStartTimeLowerBound(list[i])])
    IN  Spread(Spread(("projectId" :> Str(project)), appliedFilter.params),
               IF Found(timeFilter)
               THEN ("tractTimestamp" :> timeFilter.value)
               ELSE EmptyObject)

TimeSeriesMetrics == {"groupTracesByTime", "getObservationUsageByTime"}

QueryOf(m, list, dateTrunc) ==
    CASE m = "getTotalTraces" -> getTotalTracesQuery(list)
      [] m = "getObservationsCostGroupedByName" -> getObservationsCostGroupedByNameQuery(list)
      [] m = "getScoreAggregate" -> getScoreAggregateQuery(list)
      [] m = "groupTracesByTime" -> groupTracesByTimeQuery(list, dateTrunc)
      [] m = "getObservationUsageByTime" -> getObservationUsageByTimeQuery(list, dateTrunc)
      [] m = "getDistinctModels" -> getDistinctModelsQuery(list)
      [] m = "getModelUsageByUser" -> getModelUsageByUserQuery(list)

ParamsOf(m, project, list) ==
    CASE m = "getTotalTraces" -> getTotalTracesParams(project, list)
      [] m = "getObservationsCostGroupedByName" -> getObservationsCostGroupedByNameParams(project, list)
      [] m = "getScoreAggregate" -> getScoreAggregateParams(project, list)
      [] m = "groupTracesByTime" -> groupTracesByTimeParams(project, list)
      [] m = "getObservationUsageByTime" -> getObservationUsageByTimeParams(project, list)
      [] m = "getDistinctModels" -> getDistinctModelsParams(project, list)
      [] m = "getModelUsageByUser" -> getModelUsageByUserParams(project, list)

(***************************************************************************)
(* The rows the store hands back, in the encoding each metric declares     *)
(* for them, and the reshaping each metric does after the await.           *)
(***************************************************************************)
WireNumbers == {0, 5}

RowsOf(m) ==
    CASE m = "getTotalTraces" -> {[count |-> Num(n)] : n \in WireNumbers}
      [] m = "getObservationsCostGroupedByName" ->
            {[name |-> Str("model"), sum_cost_details |-> Num(n), sum_usage_details |-> Num(n)] :
                n \in WireNumbers}
      [] m = "getScoreAggregate" ->
            {[name |-> Str("score"), count |-> TextNum(n), avg_value |-> TextNum(n),
              source |-> Str("API"), data_type |-> Str("NUMERIC")] : n \in WireNumbers}
      [] m = "groupTracesByTime" ->
            {[timestamp |-> TextTime(n), count |-> TextNum(n)] : n \in WireNumbers}
      [] m = "getObservationUsageByTime" ->
            {[start_time |-> TextTime(n), sum_usage_details |-> TextNum(n),
              sum_cost_details |-> Num(n), provided_model_name |-> Str("model")] :
                n \in WireNumbers}
      [] m = "getDistinctModels" -> {[model |-> Str(name)] : name \in {"model", "other"}}
      [] m = "getModelUsageByUser" ->
            {[sum_usage_details |-> TextNum(n), sum_cost_details |-> Num(n),
              user_id |-> Str("user")] : n \in WireNumbers}

Results(m) == UNION {[1..n -> RowsOf(m)] : n \in 0..MaxRows}

Undefined == [t |-> "undefined"]
Array(elements) == [t |-> "array", elements |-> elements]

getTotalTracesResultZeroForEmpty(result) ==
    IF Len(result) = 0 THEN Array(<<[countTraceId |-> Num(0)]>>)
    ELSE Array(<<[countTraceId |-> result[1].count]>>)

getTotalTracesResult(result) ==
    IF Len(result) = 0 THEN Undefined
    ELSE Array(<<[countTraceId |-> result[1].count]>>)

groupTracesByTimeResult(result) ==
    Array([i \in 1..Len(result) |->
            [timestamp |-> NewDate(result[i].timestamp),
             countTraceId |-> Number(result[i].count)]])

getObservationUsageByTimeResult(result) ==
    Array([i \in 1..Len(result) |->
            [start_time |-> NewDate(result[i].start_time),
             sum_usage_details |-> Number(result[i].sum_usage_details),
             sum_cost_details |-> result[i].sum_cost_details,
             provided_model_name |-> result[i].provided_model_name]])

getModelUsageByUserResult(result) ==
    Array([i \in 1..Len(result) |->
            [sumUsageDetails |-> Number(result[i].sum_usage_details),
             sumCostDetails |-> Number(result[i].sum_cost_details),
             userId |-> result[i].user_id]])

ResultOf(m, result) ==
    CASE m = "getTotalTraces" -> getTotalTracesResult(result)
      [] m = "groupTracesByTime" -> groupTracesByTimeResult(result)
      [] m = "getObservationUsageByTime" -> getObservationUsageByTimeResult(result)
      [] m = "getModelUsageByUser" -> getModelUsageByUserResult(result)
      [] OTHER -> Array(result)

(***************************************************************************)
(* One call of a metric: compile the filter, compose the query and hand it *)
(* to the store; then the store answers or fails and the call returns.     *)
(***************************************************************************)
NoOutcome == [kind |-> "none"]
Failure(error) == [kind |-> "failure", error |-> error]
Result(value) == [kind |-> "result", value |-> value]

Init ==
    /\ pc = "idle"
    /\ metric = "none"
    /\ projectIdArg = "none"
    /\ groupBy = "none"
    /\ chFilter = <<>>
    /\ query = <<>>
    /\ params = EmptyObject
    /\ storeCalls = 0
    /\ rows = <<>>
    /\ outcome = NoOutcome
    /\ traces = <<>>

InvokeStoreBeforeValidation(m, project, filter, dateTrunc, names) ==
    /\ pc = "idle"
    /\ metric' = m
    /\ projectIdArg' = project
    /\ groupBy' = dateTrunc
    /\ storeCalls' = storeCalls + 1
    /\ IF FilterError(filter) # "none"
       THEN /\ pc' = "done"
            /\ outcome' = Failure(FilterError(filter))
            /\ UNCHANGED <<chFilter, query, params>>
       ELSE LET list == FilterList(createFilterFromFilterState(filter), names)
            IN  /\ chFilter' = list
                /\ query' = QueryOf(m, list, dateTrunc)
                /\ params' = ParamsOf(m, project, list)
                /\ pc' = "awaiting"
                /\ UNCHANGED outcome
    /\ UNCHANGED <<rows, traces>>

Invoke(m, project, filter, dateTrunc, names) ==
    /\ pc = "idle"
    /\ metric' = m
    /\ projectIdArg' = project
    /\ groupBy' = dateTrunc
    /\ IF FilterError(filter) # "none"
       THEN /\ pc' = "done"
            /\ outcome' = Failure(FilterError(filter))
            /\ UNCHANGED <<chFilter, query, params, storeCalls>>
       ELSE LET list == FilterList(createFilterFromFilterState(filter), names)
            IN  /\ chFilter' = list
                /\ query' = QueryOf(m, list, dateTrunc)
                /\ params' = ParamsOf(m, project, list)
                /\ storeCalls' = storeCalls + 1
                /\ pc' = "awaiting"
                /\ UNCHANGED outcome
    /\ UNCHANGED <<rows, traces>>

getTotalTraces ==
    /\ pc = "idle"
    /\ \E project \in ProjectIds, filter \in FilterStates :
        \E names \in ParamNamings(Len(filter)) :
            Invoke("getTotalTraces", project, filter, "none", names)

getObservationsCostGroupedByName ==
    /\ pc = "idle"
    /\ \E project \in ProjectIds, filter \in FilterStates :
        \E names \in ParamNamings(Len(filter)) :
            Invoke("getObservationsCostGroupedByName", project, filter, "none", names)

getScoreAggregate ==
    /\ pc = "idle"
    /\ \E project \in ProjectIds, filter \in FilterStates :
        \E names \in ParamNamings(Len(filter)) :
            Invoke("getScoreAggregate", project, filter, "none", names)

groupTracesByTime ==
    /\ pc = "idle"
    /\ \E project \in ProjectIds, filter \in FilterStates, dateTrunc \in Granularities :
        \E names \in ParamNamings(Len(filter)) :
            Invoke("groupTracesByTime", project, filter, dateTrunc, names)

getObservationUsageByTime ==
    /\ pc = "idle"
    /\ \E project \in ProjectIds, filter \in FilterStates, dateTrunc \in Granularities :
        \E names \in ParamNamings(Len(filter)) :
            Invoke("getObservationUsageByTime", project, filter, dateTrunc, names)

getDistinctModels ==
    /\ pc = "idle"
    /\ \E project \in ProjectIds, filter \in FilterStates :
        \E names \in ParamNamings(Len(filter)) :
            Invoke("getDistinctModels", project, filter, "none", names)

getModelUsageByUser ==
    /\ pc = "idle"
    /\ \E project \in ProjectIds, filter \in FilterStates :
        \E names \in ParamNamings(Len(filter)) :
            Invoke("getModelUsageByUser", project, filter, "none", names)

StoreAccepts ==
    /\ pc = "awaiting"
    /\ pc' = "executing"
    /\ chFilter' = <<>>
    /\ query' = <<>>
    /\ params' = EmptyObject
    /\ UNCHANGED <<metric, projectIdArg, groupBy, storeCalls, rows, outcome, traces>>

Resume(result) ==
    /\ rows' = result
    /\ outcome' = Result(ResultOf(metric, result))
    /\ pc' = "done"
    /\ UNCHANGED <<metric, projectIdArg, groupBy, chFilter, query, params, storeCalls, traces>>

StoreReturns ==
    /\ pc = "executing"
    /\ \E result \in Results(metric) : Resume(result)

StoreFails ==
    /\ pc = "executing"
    /\ outcome' = Failure("StoreExecutionError")
    /\ pc' = "done"
    /\ UNCHANGED <<metric, projectIdArg, groupBy, chFilter, query, params, storeCalls,
                   rows, traces>>

Return ==
    /\ pc = "done"
    /\ pc' = "idle"
    /\ metric' = "none"
    /\ projectIdArg' = "none"
    /\ groupBy' = "none"
    /\ storeCalls' = 0
    /\ rows' = <<>>
    /\ outcome' = NoOutcome
    /\ UNCHANGED <<chFilter, query, params, traces>>

Next ==
    \/ getTotalTraces
    \/ getObservationsCostGroupedByName
    \/ getScoreAggregate
    \/ groupTracesByTime
    \/ getObservationUsageByTime
    \/ getDistinctModels
    \/ getModelUsageByUser
    \/ StoreAccepts
    \/ StoreReturns
    \/ StoreFails
    \/ Return

Spec == Init /\ [][Next]_vars

(***************************************************************************)
(* The store evaluating a groupTracesByTime query on its traces table:     *)
(* rows of the project, truncated to the start of their period, counted    *)
(* per period, ordered ascending WITH FILL.  Time is a line of instants    *)
(* 0..MaxTime and Calendar gives the instants in one period of each unit.  *)
(***************************************************************************)
Calendar == [minute |-> 1, hour |-> 2, day |-> 3, week |-> 4, month |-> 5, year |-> 6]

TruncationUnit ==
    [toStartOfYear |-> "year", toStartOfMonth |-> "month", toStartOfWeek |-> "week",
     toStartOfDay |-> "day", toStartOfHour |-> "hour", toStartOfMinute |-> "minute"]

IntervalUnit(interval) ==
    CASE interval = "toIntervalYear(1)" -> "year"
      [] interval = "toIntervalMonth(1)" -> "month"
      [] interval = "toIntervalWeek(1)" -> "week"
      [] interval = "toIntervalDay(1)" -> "day"
      [] interval = "toIntervalHour(1)" -> "hour"
      [] interval = "toIntervalMinute(1)" -> "minute"

TraceKey(row) == 2 * row.timestamp + (IF row.project_id = "proj1" THEN 0 ELSE 1)

TraceTables ==
    UNION {{table \in [1..n -> [project_id : ProjectIds, timestamp : 0..MaxTime]] :
                \A i \in 1..(n - 1) : TraceKey(table[i]) <= TraceKey(table[i + 1])} :
           n \in 0..MaxTraces}

Minimum(S) == CHOOSE x \in S : \A y \in S : x <= y
Maximum(S) == CHOOSE x \in S : \A y \in S : y <= x

RECURSIVE Ascending(_)
Ascending(S) ==
    IF S = {} THEN <<>> ELSE <<Minimum(S)>> \o Ascending(S \ {Minimum(S)})

StartOfPeriod(instant, unit) == instant - (instant % Calendar[unit])

Execute(text, bound, table) ==
    LET truncations == {i \in 1..Len(text) : text[i].sql \in DOMAIN TruncationUnit}
        orderings == {i \in 1..Len(text) : text[i].sql = "ORDER BY ASC WITH FILL STEP"}
    IN  IF truncations = {} \/ orderings = {} \/ "projectId" \notin Keys(bound)
        THEN [ok |-> FALSE, rows |-> <<>>]
        ELSE LET unit == TruncationUnit[text[Minimum(truncations)].sql]
                 step == Calendar[IntervalUnit(text[Minimum(orderings)].args[2])]
                 selected == {i \in 1..Len(table) : Str(table[i].project_id) = bound["projectId"]}
                 bucket(i) == StartOfPeriod(table[i].timestamp, unit)
                 present == {bucket(i) : i \in selected}
                 previous(v) == Maximum({b \in present : b <= v})
                 filled == {v \in Minimum(present)..Maximum(present) :
                               (v - previous(v)) % step = 0}
                 series == Ascending(filled)
             IN  IF selected = {} THEN [ok |-> TRUE, rows |-> <<>>]
                 ELSE [ok |-> TRUE,
                       rows |-> [k \in 1..Len(series) |->
                                   [timestamp |-> TextTime(series[k]),
                                    count |-> TextNum(Cardinality(
                                        {i \in selected : bucket(i) = series[k]}))]]]

InitTimeSeries ==
    /\ pc = "idle"
    /\ metric = "none"
    /\ projectIdArg = "none"
    /\ groupBy = "none"
    /\ chFilter = <<>>
    /\ query = <<>>
    /\ params = EmptyObject
    /\ storeCalls = 0
    /\ rows = <<>>
    /\ outcome = NoOutcome
    /\ traces \in TraceTables

groupTracesByTimeUnfiltered ==
    /\ pc = "idle"
    /\ \E project \in ProjectIds, dateTrunc \in Granularities :
        Invoke("groupTracesByTime", project, <<>>, dateTrunc, <<>>)

StoreExecutes ==
    /\ pc = "awaiting"
    /\ metric = "groupTracesByTime"
    /\ LET answer == Execute(query, params, traces)
       IN  IF answer.ok
           THEN /\ rows' = answer.rows
                /\ outcome' = Result(ResultOf(metric, answer.rows))
           ELSE /\ outcome' = Failure("StoreExecutionError")
                /\ UNCHANGED rows
    /\ pc' = "done"
    /\ chFilter' = <<>>
    /\ query' = <<>>
    /\ params' = EmptyObject
    /\ UNCHANGED <<metric, projectIdArg, groupBy, storeCalls, traces>>

NextTimeSeries ==
    \/ groupTracesByTimeUnfiltered
    \/ StoreExecutes
    \/ Return

SpecTimeSeries == InitTimeSeries /\ [][NextTimeSeries]_vars

(***************************************************************************)
(* Properties.  In a state with pc = "awaiting" the variables query and    *)
(* params are the ones the call has handed to the store.                   *)
(***************************************************************************)
Sent == pc = "awaiting"

LeftJoins(text) == \E i \in 1..Len(text) : text[i] = LeftJoinTraces[1]
InnerJoins(text) ==
    \E i \in 1..Len(text) : text[i] = JoinTraces[1] \/ text[i] = JoinTracesFinal[1]
JoinsTraces(text) == LeftJoins(text) \/ InnerJoins(text)
TaggedTraces(list) == \E i \in 1..Len(list) : list[i].clickhouseTable = "traces"
Contains(text, part) ==
    \E i \in 0..(Len(text) - Len(part)) : SubSeq(text, i + 1, i + Len(part)) = part

ObservationMetrics ==
    {"getObservationsCostGroupedByName", "getObservationUsageByTime",
     "getDistinctModels", "getModelUsageByUser"}

\* C1 (as claimed): for every metric based on observations and every filter
\* list, the query sent joins traces iff some predicate is tagged traces.
C1_JoinIffTraceFilterForAllObservationMetrics ==
    (Sent /\ metric \in ObservationMetrics)
        => (JoinsTraces(query) <=> TaggedTraces(chFilter))

\* C1 (amended): getObservationsCostGroupedByName, getObservationUsageByTime
\* and getDistinctModels join traces iff some predicate of the filter list is
\* tagged traces; getModelUsageByUser joins traces for every filter list.
C1_JoinElision ==
    /\ (Sent /\ metric \in ObservationMetrics \ {"getModelUsageByUser"})
            => (JoinsTraces(query) <=> TaggedTraces(chFilter))
    /\ (Sent /\ metric = "getModelUsageByUser") => JoinsTraces(query)

C1_Witness ==
    /\ Sent
    /\ metric = "getDistinctModels"
    /\ Len(chFilter) = 2
    /\ chFilter[1].clickhouseTable = "observations"
    /\ chFilter[2].clickhouseTable = "traces"
    /\ JoinsTraces(query)

\* C2: in every metric whose keys live on the base table the traces join is a
\* left join; an inner join appears only in getModelUsageByUser.
C2_FilterOnlyJoinIsLeftJoin ==
    (Sent /\ metric # "getModelUsageByUser")
        => ~InnerJoins(query)

ScoreLevelLowerBounds(list) ==
    {i \in 1..Len(list) :
        /\ list[i].clickhouseTable = "scores"
        /\ list[i].field = "timestamp"
        /\ list[i].operator \in {">=", ">"}}

\* C3: getScoreAggregate emits the widened t.timestamp predicate iff the filter
\* list has a predicate tagged traces and a lower bound on the scores table's
\* timestamp, and tracesTimestamp is bound to that score-level filter's value.
C3_WideningIffTraceJoinAndScoreLowerBound ==
    (Sent /\ metric = "getScoreAggregate")
        => /\ Contains(query, TracesTimestampWidening)
                <=> (TaggedTraces(chFilter) /\ ScoreLevelLowerBounds(chFilter) # {})
           /\ Contains(query, TracesTimestampWidening)
                => /\ "tracesTimestamp" \in Keys(params)
                   /\ \E i \in ScoreLevelLowerBounds(chFilter) :
                        params["tracesTimestamp"].ms = chFilter[i].value.ms

\* C4: getTotalTraces returns undefined exactly when the store returned no
\* row, and otherwise one entry whose countTraceId is the first row's count.
C4_EmptyResultSentinel ==
    (pc = "done" /\ metric = "getTotalTraces" /\ storeCalls = 1
        /\ outcome # Failure("StoreExecutionError"))
        => /\ outcome.kind = "result"
           /\ outcome.value = Undefined <=> Len(rows) = 0
           /\ Len(rows) > 0
                => outcome.value = Array(<<[countTraceId |-> rows[1].count]>>)

C4_Witness ==
    /\ pc = "done"
    /\ metric = "getTotalTraces"
    /\ rows = <<>>
    /\ outcome = Result(Undefined)

IsText(value) == value.t = "text"

\* C5: no metric hands a row back to its caller in which a number or a
\* timestamp is still in the text encoding it arrived in.
C5_NoTextEncodedFieldReturned ==
    (pc = "done" /\ outcome.kind = "result" /\ outcome.value # Undefined)
        => \A i \in 1..Len(outcome.value.elements) :
              \A field \in DOMAIN outcome.value.elements[i] :
                  ~IsText(outcome.value.elements[i][field])

\* C7 (as claimed): with a granularity outside the six, the query sent holds
\* no truncation and no ordering clause and nothing stands in their places:
\* the aggregates follow SELECT directly and the text ends with GROUP BY.
C7_NothingSplicedForUnknownGranularity ==
    (Sent /\ metric \in TimeSeriesMetrics /\ groupBy \notin DateTrunc)
        => /\ \A i \in 1..Len(query) :
                /\ query[i].sql \notin DOMAIN TruncationUnit
                /\ query[i].sql # "ORDER BY ASC WITH FILL STEP"
           /\ query[1] = Text("SELECT")[1]
           /\ query[2].sql \notin {"undefined"}
           /\ query[Len(query)].sql \notin {"undefined"}

\* C7 (amended): with a granularity outside the six, the query sent holds no
\* truncation and no ordering clause; the text "undefined" stands in the place
\* of each, right after SELECT and right after the GROUP BY clause.
C7_UndefinedSplicedForUnknownGranularity ==
    (Sent /\ metric \in TimeSeriesMetrics /\ groupBy \notin DateTrunc)
        => /\ \A i \in 1..Len(query) :
                /\ query[i].sql \notin DOMAIN TruncationUnit
                /\ query[i].sql # "ORDER BY ASC WITH FILL STEP"
           /\ query[1] = Text("SELECT")[1]
           /\ query[2] = Text("undefined")[1]
           /\ query[Len(query)] = Text("undefined")[1]
           /\ query[Len(query) - 1].sql \in
                {"GROUP BY timestamp", "GROUP BY start_time, provided_model_name"}

C7_Witness ==
    /\ Sent
    /\ metric = "groupTracesByTime"
    /\ groupBy = "second"
    /\ query[2].sql = "undefined"

\* C8: the query sent holds the project predicate, ANDed with the compiled
\* filter expression, and params binds projectId to the caller's value,
\* whatever keys the compiled filter's params hold.
C8_ProjectScoped ==
    Sent
        => /\ \E i \in 1..Len(query) :
                /\ query[i].ph = {"projectId"}
                /\ query[i].sql \in {"WHERE project_id =", "WHERE s.project_id ="}
                /\ Contains(SubSeq(query, i + 1, Len(query)),
                            And \o Apply(chFilter).query)
           /\ "projectId" \in Keys(params)
           /\ params["projectId"] = Str(projectIdArg)

\* C9: a call whose filter fails to compile ends in that failure with no store
\* call made; a store call is made at most once per call; a store failure ends
\* the call with the failure and no rows; a call that ends has exactly one of
\* a result reshaped from all the rows, the undefined sentinel, or a failure.
C9_AllOrNothing ==
    /\ storeCalls <= 1
    /\ pc \in {"awaiting", "executing"} => (storeCalls = 1 /\ outcome = NoOutcome)
    /\ pc = "done"
        => \/ /\ outcome \in {Failure("UnknownField"), Failure("UnsupportedOperator")}
              /\ storeCalls = 0
              /\ rows = <<>>
           \/ /\ outcome = Failure("StoreExecutionError")
              /\ storeCalls = 1
              /\ rows = <<>>
           \/ /\ outcome.kind = "result"
              /\ storeCalls = 1
              /\ \/ outcome.value = Undefined /\ rows = <<>>
                 \/ /\ outcome.value # Undefined
                    /\ Len(outcome.value.elements) = Len(rows)
                 \/ /\ outcome.value # Undefined
                    /\ metric = "getTotalTraces"
                    /\ Len(outcome.value.elements) = 1

C9_Witness ==
    /\ pc = "done"
    /\ outcome = Failure("UnknownField")
    /\ storeCalls = 0

\* C10: the placeholder names in the query sent are exactly the keys of the
\* params sent.
C10_PlaceholdersAreParamKeys ==
    Sent => Placeholders(query) = Keys(params)

\* C6: for each of the six granularities the query groupTracesByTime sends
\* truncates with the start-of-period function of that granularity and fills
\* with a step of one unit of it, and the series returned has one entry per
\* period from the first to the last period holding a trace of the project,
\* ascending, each with the number of traces in that period (0 where none).
SelectedTraces == {i \in 1..Len(traces) : traces[i].project_id = projectIdArg}
PeriodOf(i) == traces[i].timestamp \div Calendar[groupBy]
FirstPeriod == Minimum({PeriodOf(i) : i \in SelectedTraces})
LastPeriod == Maximum({PeriodOf(i) : i \in SelectedTraces})

C6_GapFilledSeries ==
    /\ (Sent /\ metric = "groupTracesByTime" /\ groupBy \in DateTrunc)
        => /\ query[2].sql \in DOMAIN TruncationUnit
           /\ TruncationUnit[query[2].sql] = groupBy
           /\ query[2].args = <<"timestamp", "timestamp">>
           /\ query[Len(query)].sql = "ORDER BY ASC WITH FILL STEP"
           /\ query[Len(query)].args[1] = "timestamp"
           /\ IntervalUnit(query[Len(query)].args[2]) = groupBy
    /\ (pc = "done" /\ metric = "groupTracesByTime" /\ groupBy \in DateTrunc)
        => /\ outcome.kind = "result"
           /\ outcome.value # Undefined
           /\ IF SelectedTraces = {} THEN outcome.value.elements = <<>>
              ELSE /\ Len(outcome.value.elements) = LastPeriod - FirstPeriod + 1
                   /\ \A k \in 1..Len(outcome.value.elements) :
                        outcome.value.elements[k] =
                            [timestamp |-> DateOf((FirstPeriod + k - 1) * Calendar[groupBy]),
                             countTraceId |-> Num(Cardinality(
                                {i \in SelectedTraces : PeriodOf(i) = FirstPeriod + k - 1}))]

C6_Witness ==
    /\ pc = "done"
    /\ metric = "groupTracesByTime"
    /\ groupBy = "day"
    /\ outcome.kind = "result"
    /\ Len(outcome.value.elements) = 3
    /\ outcome.value.elements[2].countTraceId = Num(0)
    /\ outcome.value.elements[1].timestamp.ms < outcome.value.elements[3].timestamp.ms

====
